---- MODULE Spec2Model ----
(***************************************************************************)
(* The training backends of the repository.                                *)
(*                                                                         *)
(* Process-pool backend, ai-traineasy-mvp/packages/backend/main.py: the    *)
(* API process (one asyncio event loop running train_project,              *)
(* cancel_training, get_train_status, get_training_history), the           *)
(* ProcessPoolExecutor with its worker processes running run_training_job, *)
(* the training subprocesses, and the files they share                     *)
(* (train_history.json, train.pid). The handlers are async functions       *)
(* without an await, so the event loop runs one handler at a time; the     *)
(* worker processes and the executor's manager thread run in parallel with *)
(* it. A step is one access to what is shared: the registry and the        *)
(* futures, a read or a write of a file. Not modelled: executor.submit     *)
(* raising, the history file being unwritable, a worker process dying.     *)
(*                                                                         *)
(* Temporal backend, backend/workflows/ml_training_workflow.py and         *)
(* backend/services/temporal_service.py: one execution of                  *)
(* MLTrainingWorkflow.run with the retries of its activities, and the      *)
(* start, cancel and status operations of TemporalService on it.           *)
(*                                                                         *)
(* PID-file backend, packages/backend/main_simple.py: train_project and    *)
(* its run_training threads for one project.                               *)
(*                                                                         *)
(* Each backend has its own specification; the steps of one leave the      *)
(* variables of the others as they are.                                    *)
(***************************************************************************)
EXTENDS Integers, Sequences, FiniteSets, TLC

\* ---------------------------------------------------------------- bounds
MaxCalls == 3       \* train_project and cancel_training calls that change the state
MaxClock == 1       \* largest value time.time() takes

\* ------------------------------------------------------ program constants
max_workers == 2          \* ProcessPoolExecutor(max_workers=2)
EXTRA_QUEUED_CALLS == 1   \* the executor's call queue holds max_workers + 1 items

Projects == {"p1", "p2", "p3"}
\* The projects that clients send requests for. The registry entry and the
\* files of a project are touched by requests and jobs of that project only.
Requested == {"p1"}
JobIds == 1..MaxCalls
NoJob == 0

VARIABLES
  jobs,            \* job id -> the submission: its future, its worker's position, its subprocess
  training_tasks,  \* project -> registered job id (NoJob: key absent)
  history,         \* project -> content of projects/<p>/train_history.json
  pidfile,         \* project -> content of projects/<p>/train.pid (NoJob: no file)
  clock,           \* the value time.time() returned last
  api,             \* the handler the event loop is in the middle of
  cancelAcked,     \* submissions for which cancel_training returned its success response
  calls,           \* number of accepted train_project calls and of cancel_training calls
                   \* that found a registered future
  wf,              \* the execution of MLTrainingWorkflow.run (workflows/ml_training_workflow.py)
  sb,              \* the PID-file backend (main_simple.py): train.pid and the run_training threads
  pm,              \* ProcessManager (utils/process_manager.py): its lock, active_processes, its callers
  wm,              \* WorkerManager (backend/worker.py): client, worker, running, its start and stop calls
  ids              \* the identifiers minted from the clock and the records stored under them

\* the variables outside the process-pool backend
rest == <<wf, sb, pm, wm, ids>>

vars == <<jobs, training_tasks, history, pidfile, clock, api, cancelAcked, calls, rest>>

\* ------------------------------------------------------------- data model
NoEntry == [event |-> "none", ts |-> 0, job |-> NoJob]

\* A history entry {"event": e, "timestamp": t}; job is the submission that the
\* entry is about (not stored by the code, kept to tell submissions apart).
Entry(e, t, j) == [event |-> e, ts |-> t, job |-> j]

NoJobRec == [project |-> "none", pc |-> "none", out |-> "none", proc |-> "none",
             snap |-> <<>>, entry |-> NoEntry]

IdleApi == [pc |-> "idle", project |-> "none", snap |-> <<>>, entry |-> NoEntry,
            cbf |-> FALSE, pta |-> FALSE]

\* The positions of a worker inside run_training_job (between the pick-up of
\* the call item and the return of the function).
ExecPcs == {"run_read", "run_write", "run_dump", "popen", "wait",
            "end_read", "end_write", "end_dump", "finally"}

\* concurrent.futures.Future._state of the submission's future
FutState(j) ==
  CASE jobs[j].pc = "pending"   -> "PENDING"
    [] jobs[j].pc = "cancelled" -> "CANCELLED"
    [] jobs[j].pc = "done"      -> "FINISHED"
    [] jobs[j].pc = "none"      -> "NONE"
    [] OTHER                    -> "RUNNING"

\* A finished Future that training_tasks no longer refers to is garbage: its
\* result can never be read again, so what it held is dropped.
Forget(js, j) ==
  IF js[j].pc = "done"
  THEN [js EXCEPT ![j] = [NoJobRec EXCEPT !.project = js[j].project, !.pc = "done"]]
  ELSE js

future_done(j) == FutState(j) \in {"CANCELLED", "FINISHED"}
future_running(j) == FutState(j) = "RUNNING"

\* time.time() returns clock: one shared clock that never goes back; tick is
\* the passing of time between two readings.
tick ==
  /\ clock < MaxClock
  /\ clock' = clock + 1
  /\ UNCHANGED <<jobs, training_tasks, history, pidfile, api, cancelAcked, calls, rest>>

\* ------------------------------------------- MLTrainingWorkflow: data model
\* The steps of MLTrainingWorkflow.run in the order of its execute_activity
\* calls, and the maximum_attempts of the RetryPolicy of each.
StepNames == <<"validate", "prepare", "load_data", "train", "evaluate", "persist">>
maximum_attempts == <<3, 2, 2, 1, 2, 3>>
Steps == 1..Len(StepNames)
NoStep == 0

\* The training requests told apart by what the steps do with them: a request
\* that every step accepts, one that validate_training_request finds invalid,
\* and one whose dataset passes validation (the path exists) but is rejected by
\* load_and_preprocess_data (not a CSV file, empty, or fewer than 10 rows).
RequestKinds == {"good", "invalid", "bad_dataset"}

NoError == [step |-> NoStep, kind |-> "none"]
NoResult == [status |-> "none", error |-> NoError]

NoWorkflow == [pc |-> "none", req |-> "none", step |-> NoStep, attempt |-> 0,
               ran |-> [s \in Steps |-> 0], passed |-> [s \in Steps |-> FALSE],
               cleanups |-> 0, error |-> NoError,
               result |-> NoResult, cancel |-> FALSE, query |-> "idle"]

\* ------------------------------------------------ PID-file backend: data model
MaxThreads == 3     \* accepted train_project calls of the PID-file backend
ThreadIds == 1..MaxThreads
NoPid == 0

NoThread == [pc |-> "none", proc |-> "none"]

\* One project: train.pid (the PID is the number of the thread that wrote it),
\* the status field of projects/<p>.json, and the run_training threads.
NoTraining == [pid |-> NoPid, status |-> "created",
               threads |-> [t \in ThreadIds |-> NoThread]]

\* ------------------------------------------------ ProcessManager: data model
MaxProcs == 2       \* processes run_training returns
\* the threads that call the methods of the ProcessManager
Callers == {"t1", "t2"}
ProcIds == 1..MaxProcs
NoCaller == "none"
NoProc == 0
PMProjects == {"p1", "p2"}

\* active_processes[p]: {'process': ..., 'paused': ...}; proc = NoProc: no key p.
\* lastop (not stored by the code): the last pause_training or resume_training
\* on the entry that returned without raising.
NoActive == [proc |-> NoProc, paused |-> FALSE, lastop |-> "none"]

\* A calling thread: where it is in start_training (the other methods are one
\* step).
IdleCaller == [pc |-> "idle", project |-> "none", proc |-> NoProc]

\* A call that has returned or raised: who called what, and how it ended.
Call(c, op, p, result) == [caller |-> c, op |-> op, project |-> p, result |-> result]

NoManager == [lock |-> NoCaller,
              active |-> [p \in PMProjects |-> NoActive],
              procs |-> [i \in ProcIds |-> "none"],
              callers |-> [c \in Callers |-> IdleCaller],
              last |-> Call(NoCaller, "none", "none", "none")]

\* ------------------------------------------------- WorkerManager: data model
MaxStarts == 3      \* calls of WorkerManager.start
WorkerIds == 1..MaxStarts
NoWorker == 0

\* WorkerManager.__init__: client None, worker None, running False. workers:
\* the Worker objects created so far, their state and how often shutdown()
\* was called on each.
NoWorkerManager == [client |-> FALSE, worker |-> NoWorker, running |-> FALSE,
                    start |-> "idle", stop |-> "idle", outcome |-> "none",
                    last |-> "none",
                    workers |-> [w \in WorkerIds |-> [state |-> "none", shutdowns |-> 0]]]

\* --------------------------------------------------- identifiers: data model
MaxSubmits == 3     \* submissions that mint identifiers
SubmitIds == 1..MaxSubmits
NoSubmit == 0

\* training_sessions and models_db of simple_main.py and the workflows known
\* to the Temporal server: key (the clock value in the identifier) -> the
\* submission whose record is stored under it; accepted: the submissions
\* accepted so far by either service.
NoTime == -1
\* the identifiers one accepted submission was given: session_<t> and
\* model_<t> (simple_main.start_training) or training_<model_id>_<t>
\* (TemporalService.start_training_workflow, one model_id)
NoGiven == [kind |-> "none", session |-> NoTime, model |-> NoTime, workflow |-> NoTime]

\* training_sessions and models_db: for every key, the submission whose record
\* the dict holds; workflows: for every workflow id, the submission that
\* started its latest run and whether that run is open.
NoIds == [training_sessions |-> [t \in 0..MaxClock |-> NoSubmit],
          models_db |-> [t \in 0..MaxClock |-> NoSubmit],
          workflows |-> [t \in 0..MaxClock |-> [run |-> NoSubmit, open |-> FALSE]],
          given |-> [n \in SubmitIds |-> NoGiven],
          accepted |-> 0]

nextJob == Cardinality({j \in JobIds : jobs[j].pc # "none"}) + 1

Init ==
  /\ jobs = [j \in JobIds |-> NoJobRec]
  /\ training_tasks = [p \in Projects |-> NoJob]
  /\ history = [p \in Projects |-> <<>>]
  /\ pidfile = [p \in Projects |-> NoJob]
  /\ clock = 0
  /\ api = IdleApi
  /\ cancelAcked = {}
  /\ calls = 0
  /\ wf = NoWorkflow
  /\ sb = NoTraining
  /\ pm = NoManager
  /\ wm = NoWorkerManager
  /\ ids = NoIds

\* ---------------------------------------------------------- append_history
\* (a write that leaves out the new entry)
append_history_without_entry(snap, entry) == snap

\* append_history reads the whole file, appends the entry to what it read and
\* writes the whole file back; no lock is taken, so the read and the write of
\* one call are two steps that calls of other processes interleave with.
append_history(snap, entry) == Append(snap, entry)

\* The content of a history file between the open(history_path, "w") of a
\* writer, which truncates it, and the end of its json.dump: no JSON document.
Torn == <<[event |-> "torn", ts |-> 0, job |-> NoJob]>>

\* json.load of the file; on a torn file it raises JSONDecodeError.
json_load(content) == IF content = Torn THEN "JSONDecodeError" ELSE content

\* The list append_history goes on with after its read: what json.load
\* returned, or [] after JSONDecodeError (lines 102-111).
history_read(content) ==
  IF json_load(content) = "JSONDecodeError" THEN <<>> ELSE json_load(content)


\* ------------------------------------------------------------ the executor
Pending == {j \in JobIds : jobs[j].pc = "pending"}
InCallQueue == {j \in JobIds : jobs[j].pc = "callq"}
Executing == {j \in JobIds : jobs[j].pc \in ExecPcs}

Least(S) == CHOOSE x \in S : \A y \in S : x <= y

\* The executor's manager thread moves the oldest pending work item into the
\* call queue while the queue is not full (Future.set_running_or_notify_cancel:
\* PENDING -> RUNNING); cancelled items are dropped on the way.
dispatch(j) ==
  /\ Pending # {}
  /\ j = Least(Pending)
  /\ Cardinality(InCallQueue) < max_workers + EXTRA_QUEUED_CALLS
  /\ jobs' = [jobs EXCEPT ![j].pc = "callq"]
  /\ UNCHANGED <<training_tasks, history, pidfile, clock, api, cancelAcked, calls, rest>>

\* ------------------------------------------------------- run_training_job
\* A free worker process takes the oldest call item and enters
\* run_training_job: makedirs, then the "running" entry is built.
worker_start(j) ==
  /\ InCallQueue # {}
  /\ j = Least(InCallQueue)
  /\ Cardinality(Executing) < max_workers
  /\ jobs' = [jobs EXCEPT ![j].pc = "run_read",
                          ![j].entry = Entry("running", clock, j)]
  /\ UNCHANGED <<clock, training_tasks, history, pidfile, api, cancelAcked, calls, rest>>

\* append_history, first half: json.load of the file
worker_history_read(j) ==
  /\ jobs[j].pc \in {"run_read", "end_read"}
  /\ jobs' = [jobs EXCEPT ![j].snap = history_read(history[jobs[j].project]),
                          ![j].pc = IF jobs[j].pc = "run_read" THEN "run_write"
                                    ELSE "end_write"]
  /\ UNCHANGED <<training_tasks, history, pidfile, clock, api, cancelAcked, calls, rest>>

\* append_history, second half: json.dump of what was read plus the entry
worker_history_write(j) ==
  /\ jobs[j].pc \in {"run_write", "end_write"}
  /\ history' = [history EXCEPT ![jobs[j].project] =
                    append_history(jobs[j].snap, jobs[j].entry)]
  /\ jobs' = [jobs EXCEPT ![j].snap = <<>>,
                          ![j].entry = NoEntry,
                          ![j].pc = IF jobs[j].pc = "run_write" THEN "popen"
                                    ELSE "finally"]
  /\ UNCHANGED <<training_tasks, pidfile, clock, api, cancelAcked, calls, rest>>

\* subprocess.Popen starts the training subprocess and its PID is written to
\* train.pid (the PID is the job id). The subprocess is visible to the rest of
\* the program only through train.pid, so both statements are one step.
popen_ok(j) ==
  /\ jobs[j].pc = "popen"
  /\ pidfile' = [pidfile EXCEPT ![jobs[j].project] = j]
  /\ jobs' = [jobs EXCEPT ![j].proc = "alive", ![j].pc = "wait"]
  /\ UNCHANGED <<training_tasks, history, clock, api, cancelAcked, calls, rest>>

\* open(log_path) or Popen raises: the except branch builds the "failed" entry
popen_raises(j) ==
  /\ jobs[j].pc = "popen"
  /\ jobs' = [jobs EXCEPT ![j].out = "exception",
                          ![j].entry = Entry("failed", clock, j),
                          ![j].pc = "end_read"]
  /\ UNCHANGED <<clock, training_tasks, history, pidfile, api, cancelAcked, calls, rest>>

\* The value run_training_job hands to its future for a return code.
job_outcome(rc) == IF rc = 0 THEN "true" ELSE "false"

\* The event run_training_job records for a return code.
job_event(rc) == IF rc # 0 THEN "failed" ELSE "finished"

\* proc.wait() returns: the subprocess exited by itself with code 0 or 1, or
\* was terminated by SIGTERM (code -15); the final entry is built.
proc_wait(j) ==
  /\ jobs[j].pc = "wait"
  /\ \E rc \in (IF jobs[j].proc = "killed" THEN {-15} ELSE {0, 1}) :
     /\ jobs' = [jobs EXCEPT ![j].proc = CASE rc = 0 -> "exit0"
                                          [] rc = 1 -> "exitErr"
                                          [] OTHER -> "terminated",
                             ![j].out = job_outcome(rc),
                             ![j].entry = Entry(job_event(rc), clock, j),
                             ![j].pc = "end_read"]
  /\ UNCHANGED <<clock, training_tasks, history, pidfile, api, cancelAcked, calls, rest>>

\* (a cleanup that runs only on the success path)
finally_pid_on_success_only(j) ==
  IF jobs[j].out = "true" THEN [pidfile EXCEPT ![jobs[j].project] = NoJob]
  ELSE pidfile

\* finally: if os.path.exists(pid_path): os.remove(pid_path). The test and the
\* removal are taken as one step.
finally_pid(j) == [pidfile EXCEPT ![jobs[j].project] = NoJob]

job_finally(j) ==
  /\ jobs[j].pc = "finally"
  /\ pidfile' = finally_pid(j)
  /\ jobs' = [jobs EXCEPT ![j].pc = "returned"]
  /\ UNCHANGED <<training_tasks, history, clock, api, cancelAcked, calls, rest>>

\* The manager thread takes the worker's result item and sets the future's
\* result or exception (RUNNING -> FINISHED).
set_result(j) ==
  /\ jobs[j].pc = "returned"
  /\ jobs' = IF training_tasks[jobs[j].project] = j
             THEN [jobs EXCEPT ![j].pc = "done"]
             ELSE Forget([jobs EXCEPT ![j].pc = "done"], j)
  /\ UNCHANGED <<training_tasks, history, pidfile, clock, api, cancelAcked, calls, rest>>

\* ------------------------------------------------------- get_train_status
\* The status get_train_status(p) reports (the project directory exists).
\* future.result() of a job that returned False is a value, not an exception.
get_status(p) ==
  LET j == training_tasks[p] IN
  IF j = NoJob THEN "not_started"
  ELSE IF future_done(j)
       THEN (IF FutState(j) = "CANCELLED" \/ jobs[j].out = "exception"
             THEN "failed" ELSE "finished")
       ELSE IF future_running(j) THEN "running" ELSE "queued"

Terminal == {"finished", "failed"}

\* get_train_status reads training_tasks and the future and writes nothing.
get_train_status(p) ==
  /\ api.pc = "idle"
  /\ get_status(p) \in {"not_started", "queued", "running", "finished", "failed"}
  /\ UNCHANGED vars

\* --------------------------------------------------- get_training_history
\* The list get_training_history(p) returns: the content of the file.
get_training_history(p) == history[p]

\* ----------------------------------------------------------- train_project
\* (a check that looks at future.running() only)
train_rejects_running_only(p) ==
  /\ training_tasks[p] # NoJob
  /\ future_running(training_tasks[p])

\* (a check that rejects whenever a task is registered, done or not)
train_rejects_registered(p) == training_tasks[p] # NoJob

\* if project_id in training_tasks and not future.done(): 409
train_rejects(p) ==
  /\ training_tasks[p] # NoJob
  /\ ~future_done(training_tasks[p])

\* The HTTP response of train_project(p): its status code and, for the 409,
\* the state named in the detail.
train_project_response(p) ==
  IF train_rejects(p)
  THEN [code |-> 409,
        detail |-> IF future_running(training_tasks[p]) THEN "running" ELSE "queued"]
  ELSE [code |-> 200, detail |-> "queued"]

\* the 409 path: raises before anything is submitted or written
train_project_reject(p) ==
  /\ api.pc = "idle"
  /\ train_rejects(p)
  /\ train_project_response(p).code = 409
  /\ UNCHANGED vars

\* executor.submit, training_tasks[project_id] = future, and the "queued" entry
\* is built for append_history.
train_project_submit(p) ==
  /\ api.pc = "idle"
  /\ ~train_rejects(p)
  /\ calls < MaxCalls
  /\ jobs' = [(IF training_tasks[p] = NoJob THEN jobs
                ELSE Forget(jobs, training_tasks[p]))
               EXCEPT ![nextJob] = [NoJobRec EXCEPT !.project = p, !.pc = "pending"]]
  /\ training_tasks' = [training_tasks EXCEPT ![p] = nextJob]
  /\ api' = [IdleApi EXCEPT !.pc = "tp_read", !.project = p,
                            !.entry = Entry("queued", clock, nextJob)]
  /\ calls' = calls + 1
  /\ UNCHANGED <<clock, history, pidfile, cancelAcked, rest>>

\* append_history in a handler, first half: json.load of the file
api_history_read ==
  /\ api.pc \in {"tp_read", "cd_read", "ca_read"}
  /\ api' = [api EXCEPT !.snap = history_read(history[api.project]),
                        !.pc = CASE api.pc = "tp_read" -> "tp_write"
                                 [] api.pc = "cd_read" -> "cd_write"
                                 [] api.pc = "ca_read" -> "ca_write"]
  /\ UNCHANGED <<jobs, training_tasks, history, pidfile, clock, cancelAcked, calls, rest>>

\* the write of append_history and the 200 response
train_project_return ==
  /\ api.pc = "tp_write"
  /\ history' = [history EXCEPT ![api.project] = append_history(api.snap, api.entry)]
  /\ api' = IdleApi
  /\ UNCHANGED <<jobs, training_tasks, pidfile, clock, cancelAcked, calls, rest>>

\* ---------------------------------------------------------- cancel_training
\* (a cancel that forgets the task whatever its state)
tasks_after_cancel_always(p, done, cbf, pta) ==
  [training_tasks EXCEPT ![p] = NoJob]

\* What cancel_training leaves in training_tasks: the key is deleted only on
\* the path of a future that was not done, when future.cancel() returned True
\* or a PID from train.pid was signalled.
tasks_after_cancel(p, done, cbf, pta) ==
  IF ~done /\ (cbf \/ pta)
  THEN [training_tasks EXCEPT ![p] = NoJob]
  ELSE training_tasks

\* The status code of the HTTP response of cancel_training(p).
cancel_training_response(p) ==
  IF training_tasks[p] = NoJob THEN 404
  ELSE IF future_done(training_tasks[p]) THEN 400
  ELSE 200

\* if not future: 404, nothing is written
cancel_not_found(p) ==
  /\ api.pc = "idle"
  /\ training_tasks[p] = NoJob
  /\ cancel_training_response(p) = 404
  /\ UNCHANGED vars

\* if future.done(): the cancel_attempt_on_completed_task entry is built for
\* append_history
cancel_completed(p) ==
  /\ api.pc = "idle"
  /\ calls < MaxCalls
  /\ training_tasks[p] # NoJob
  /\ future_done(training_tasks[p])
  /\ calls' = calls + 1
  /\ api' = [IdleApi EXCEPT !.pc = "cd_read", !.project = p,
                            !.entry = Entry("cancel_attempt_on_completed_task",
                                            clock, training_tasks[p])]
  /\ UNCHANGED <<clock, jobs, training_tasks, history, pidfile, cancelAcked, rest>>

\* the write of append_history and the 400 response
cancel_completed_return ==
  /\ api.pc = "cd_write"
  /\ history' = [history EXCEPT ![api.project] = append_history(api.snap, api.entry)]
  /\ training_tasks' = tasks_after_cancel(api.project, TRUE, FALSE, FALSE)
  /\ jobs' = IF training_tasks'[api.project] = NoJob
             THEN Forget(jobs, training_tasks[api.project])
             ELSE jobs
  /\ api' = IdleApi
  /\ UNCHANGED <<pidfile, clock, cancelAcked, calls, rest>>

\* future.cancel() succeeds only on a PENDING future
future_cancel(j) == FutState(j) = "PENDING"

\* The future is not done: future.cancel(); if train.pid exists, SIGTERM to the
\* PID in it (pid_terminated_attempt is True whether the process is alive, a
\* zombie or gone); then the cancellation_actioned entry is built.
cancel_action(p) ==
  /\ api.pc = "idle"
  /\ calls < MaxCalls
  /\ training_tasks[p] # NoJob
  /\ ~future_done(training_tasks[p])
  /\ calls' = calls + 1
  /\ LET j == training_tasks[p]
         cbf == future_cancel(j)
         pid == pidfile[p]
         pta == pid # NoJob
         cancelled == IF cbf THEN [jobs EXCEPT ![j].pc = "cancelled"] ELSE jobs
     IN /\ jobs' = IF pta /\ jobs[pid].proc = "alive"
                   THEN [cancelled EXCEPT ![pid].proc = "killed"]
                   ELSE cancelled
        /\ api' = [pc |-> "ca_read", project |-> p, snap |-> <<>>,
                   entry |-> Entry("cancellation_actioned", clock, j),
                   cbf |-> cbf, pta |-> pta]
  /\ UNCHANGED <<clock, training_tasks, history, pidfile, cancelAcked, rest>>

\* the write of append_history, the deletion from training_tasks and the
\* success response
cancel_action_return ==
  /\ api.pc = "ca_write"
  /\ history' = [history EXCEPT ![api.project] = append_history(api.snap, api.entry)]
  /\ training_tasks' = tasks_after_cancel(api.project, FALSE, api.cbf, api.pta)
  /\ jobs' = IF training_tasks'[api.project] = NoJob
             THEN Forget(jobs, training_tasks[api.project])
             ELSE jobs
  /\ cancelAcked' = cancelAcked \cup {api.entry.job}
  /\ api' = IdleApi
  /\ UNCHANGED <<pidfile, clock, calls, rest>>

\* ------------------------------------------------------------ specification
Next ==
  \/ \E p \in Requested : train_project_reject(p)
  \/ \E p \in Requested : train_project_submit(p)
  \/ api_history_read
  \/ train_project_return
  \/ \E p \in Requested : cancel_not_found(p)
  \/ \E p \in Requested : cancel_completed(p)
  \/ cancel_completed_return
  \/ \E p \in Requested : cancel_action(p)
  \/ cancel_action_return
  \/ \E p \in Requested : get_train_status(p)
  \/ \E j \in JobIds : dispatch(j)
  \/ \E j \in JobIds : worker_start(j)
  \/ \E j \in JobIds : worker_history_read(j)
  \/ \E j \in JobIds : worker_history_write(j)
  \/ \E j \in JobIds : popen_ok(j)
  \/ \E j \in JobIds : popen_raises(j)
  \/ \E j \in JobIds : proc_wait(j)
  \/ \E j \in JobIds : job_finally(j)
  \/ \E j \in JobIds : set_result(j)

Spec == Init /\ [][Next]_vars

\* Spec: the clock stands still (every timestamp is 0). No step of the program
\* reads a timestamp back, so what holds of everything but the timestamps
\* holds whatever the clock does. SpecClock lets time pass between any two
\* steps.
NextClock == Next \/ tick

SpecClock == Init /\ [][NextClock]_vars

\* ================================================================== claims
IsPrefix(s, t) == Len(s) <= Len(t) /\ \A i \in 1..Len(s) : s[i] = t[i]

HasEvent(p, e) == \E i \in 1..Len(history[p]) : history[p][i].event = e

\* Jobs of project p whose future is neither cancelled nor finished: queued in
\* the executor, or with run_training_job pending or executing.
ActiveJobs(p) ==
  {j \in JobIds : jobs[j].project = p
                  /\ jobs[j].pc \notin {"none", "cancelled", "done"}}

\* The project has a registered job whose future is not done.
RegisteredNotDone(p) ==
  /\ training_tasks[p] # NoJob
  /\ jobs[training_tasks[p]].pc \notin {"cancelled", "done"}

\* The project has a registered job whose future is done.
RegisteredDone(p) ==
  /\ training_tasks[p] # NoJob
  /\ jobs[training_tasks[p]].pc \in {"cancelled", "done"}

\* A step of the train_project handler for p that starts it.
train_project(p) == train_project_reject(p) \/ train_project_submit(p)

\* A step that starts the cancel_training handler for p.
cancel_training(p) == cancel_not_found(p) \/ cancel_completed(p) \/ cancel_action(p)

\* C1: for every project, in every reachable state, at most one training job
\* of the project is queued or running.
C1_SingleFlight ==
  \A p \in Projects : Cardinality(ActiveJobs(p)) <= 1

\* C2: train_project for a project whose registered future is not done answers
\* 409 with the state of the future ("queued" while it is pending, "running"
\* otherwise) in its detail, submits nothing and leaves the jobs,
\* training_tasks and the history file as they were.
C2_RejectWhileActive ==
  [][\A p \in Projects :
       (api.pc = "idle" /\ RegisteredNotDone(p)) =>
         /\ train_project_response(p) =
              [code |-> 409,
               detail |-> IF jobs[training_tasks[p]].pc = "pending" THEN "queued"
                          ELSE "running"]
         /\ (train_project(p) =>
               UNCHANGED <<jobs, training_tasks, history, pidfile, api>>)]_vars

\* C2 witness: a second train_project arrives while the first job's
\* subprocess is being waited for.
C2_Witness ==
  /\ api.pc = "idle"
  /\ training_tasks["p1"] # NoJob
  /\ jobs[training_tasks["p1"]].pc = "wait"
  /\ ENABLED train_project_reject("p1")

\* The registered future of p is FINISHED and no cancel_training call that
\* found it not done is still under way.
Settled(p) ==
  /\ training_tasks[p] # NoJob
  /\ jobs[training_tasks[p]].pc = "done"
  /\ ~(api.pc \in {"ca_read", "ca_write"} /\ api.project = p)

\* C3: get_train_status runs when the event loop is idle. Whenever it can
\* report a terminal status ("finished", "failed") the project is settled, and
\* a settled project stays settled with the same status over every step that
\* is not the acceptance of a new submission for the project: no
\* cancel_training call and no worker step changes what is reported.
C3_TerminalAbsorbing ==
  [][\A p \in Projects :
       /\ (api.pc = "idle" /\ get_status(p) \in Terminal) => Settled(p)
       /\ (Settled(p) /\ ~train_project_submit(p)) =>
            /\ Settled(p)'
            /\ get_status(p) \in Terminal
            /\ get_status(p)' = get_status(p)]_vars

\* C3 witness: the status is terminal after cancel_training has been called
\* on the finished job.
C3_Witness ==
  /\ get_status("p1") \in Terminal
  /\ api.pc = "idle"
  /\ HasEvent("p1", "cancel_attempt_on_completed_task")

\* C4: a job for which cancel_training returned its success response never
\* gets a "finished" history entry and is never reported "finished".
C4_CancelWins ==
  \A j \in cancelAcked :
    LET p == jobs[j].project IN
    /\ ~\E i \in 1..Len(history[p]) :
          history[p][i].event = "finished" /\ history[p][i].job = j
    /\ ~(api.pc = "idle" /\ training_tasks[p] = j /\ get_status(p) = "finished")

C6_AppendOnly ==
  [][\A p \in Projects : IsPrefix(history[p], history'[p])]_vars

\* C7: the timestamps of the list get_training_history returns never decrease.
C7_TimestampsNonDecreasing ==
  \A p \in Projects :
    \A i \in 1..(Len(get_training_history(p)) - 1) :
      get_training_history(p)[i].ts <= get_training_history(p)[i + 1].ts

\* C8: when get_train_status can run (the event loop is idle) and the status
\* it reports is terminal, the last history entry is the event of that status.
C8_LastEntryMatchesStatus ==
  \A p \in Projects :
    (api.pc = "idle" /\ get_status(p) \in Terminal) =>
      /\ history[p] # <<>>
      /\ history[p][Len(history[p])].event = get_status(p)

\* C9: a registered job whose subprocess exited with a non-zero return code
\* is reported "failed" by get_train_status once its future is done.
C9_NonZeroExitIsFailed ==
  \A p \in Projects :
    (/\ api.pc = "idle"
     /\ training_tasks[p] # NoJob
     /\ jobs[training_tasks[p]].pc = "done"
     /\ jobs[training_tasks[p]].proc \in {"exitErr", "terminated"})
    => get_status(p) = "failed"

\* C10: when a run_training_job of the project has ended and no
\* run_training_job of the project is executing, train.pid does not exist.
C10_PidRemoved ==
  \A p \in Projects :
    (/\ \E j \in JobIds : jobs[j].project = p /\ jobs[j].pc \in {"returned", "done"}
     /\ ~\E j \in JobIds : jobs[j].project = p /\ jobs[j].pc \in ExecPcs)
    => pidfile[p] = NoJob

\* C10 witness: a job whose subprocess was terminated by cancel_training's
\* SIGTERM has ended, no other job runs, and train.pid is gone.
C10_Witness ==
  /\ \E j \in JobIds : /\ jobs[j].project = "p1"
                       /\ jobs[j].pc \in {"returned", "done"}
                       /\ jobs[j].proc = "terminated"
  /\ ~\E j \in JobIds : jobs[j].project = "p1" /\ jobs[j].pc \in ExecPcs
  /\ pidfile["p1"] = NoJob

\* The submission's run_training_job has not started executing: the work item
\* waits in the executor (pending) or in its call queue.
NotStarted(j) == jobs[j].pc \in {"pending", "callq"}

\* C11: a cancel_training call that finds the registered job not started
\* cancels it at once: the future is CANCELLED when the cancellation has been
\* actioned, so that run_training_job is never entered for the submission.
C11_QueuedCancelImmediate ==
  [][\A p \in Projects :
       (cancel_action(p) /\ NotStarted(training_tasks[p])) =>
          jobs'[training_tasks[p]].pc = "cancelled"]_vars

\* SpecPool: clients submit jobs for every project and none is cancelled, so
\* that more submissions are accepted than the pool has workers. The projects
\* are interchangeable, so their first submissions arrive in one order.
ProjectOrder == <<"p1", "p2", "p3">>

SubmittedBefore(p) ==
  \A i, k \in 1..Len(ProjectOrder) :
    (ProjectOrder[i] = p /\ k < i) =>
      \E j \in JobIds : jobs[j].project = ProjectOrder[k]

NextPool ==
  \/ \E p \in Projects : train_project_reject(p)
  \/ \E p \in Projects : SubmittedBefore(p) /\ train_project_submit(p)
  \/ api_history_read
  \/ train_project_return
  \/ \E p \in Projects : get_train_status(p)
  \/ \E j \in JobIds : dispatch(j)
  \/ \E j \in JobIds : worker_start(j)
  \/ \E j \in JobIds : worker_history_read(j)
  \/ \E j \in JobIds : worker_history_write(j)
  \/ \E j \in JobIds : popen_ok(j)
  \/ \E j \in JobIds : popen_raises(j)
  \/ \E j \in JobIds : proc_wait(j)
  \/ \E j \in JobIds : job_finally(j)
  \/ \E j \in JobIds : set_result(j)

SpecPool == Init /\ [][NextPool]_vars

\* The training subprocesses that are running.
LiveSubprocesses == {j \in JobIds : jobs[j].proc \in {"alive", "killed"}}

\* Both workers are inside run_training_job.
PoolFull == Cardinality(Executing) = max_workers

\* C12 (bound): at most max_workers run_training_job invocations are
\* executing, and at most as many training subprocesses run.
C12_AtMostTwoExecuting ==
  /\ Cardinality(Executing) <= max_workers
  /\ Cardinality(LiveSubprocesses) <= max_workers

\* C12: while both workers are busy, every registered submission whose
\* run_training_job has not started is reported "queued" by get_train_status.
C12_BeyondBoundReportedQueued ==
  \A p \in Projects :
    (/\ api.pc = "idle"
     /\ PoolFull
     /\ training_tasks[p] # NoJob
     /\ NotStarted(training_tasks[p]))
    => get_status(p) = "queued"

\* ============================================== MLTrainingWorkflow and its service
\* the variables of the process-pool backend
poolvars == <<jobs, training_tasks, history, pidfile, clock, api, cancelAcked, calls>>

\* TemporalService.start_training_workflow: the request is normalised to the
\* fields of TrainingRequest and client.start_workflow returns the handle of
\* the workflow, which waits on the task queue for the worker.
start_training_workflow(req) ==
  /\ wf.pc = "none"
  /\ wf' = [wf EXCEPT !.pc = "scheduled", !.req = req]
  /\ UNCHANGED <<poolvars, sb, pm, wm, ids>>

\* run: TrainingRequest(**training_request) succeeds on a normalised request;
\* the first execute_activity is validate_training_request.
workflow_run ==
  /\ wf.pc = "scheduled"
  /\ wf' = [wf EXCEPT !.pc = "activity", !.step = 1, !.attempt = 1]
  /\ UNCHANGED <<poolvars, sb, pm, wm, ids>>

\* What an attempt of a step can end in. "ok": the activity returned.
\* "transient": it raised for a cause that may be gone on the next attempt, or
\* its start_to_close_timeout passed. "terminal": load_and_preprocess_data
\* raised ValueError for the dataset (lines 259-266), which the attempt's
\* except clause hands on as ApplicationError (line 324).
Outcomes(step, req) ==
  IF StepNames[step] = "load_data" /\ req = "bad_dataset"
  THEN {"terminal", "transient"}
  ELSE {"ok", "transient"}

\* (a policy that retries without a bound)
retry_always(step, attempt, kind) == TRUE

\* Whether a failed attempt is retried: ApplicationError is raised without
\* non_retryable and the RetryPolicy names no non_retryable_error_types, so
\* every failure is retried until maximum_attempts.
retries(step, attempt, kind) == attempt < maximum_attempts[step]

\* (a run that ignores the result of validate)
validation_never_stops(step, req) == FALSE

\* 'if not validation_result['valid']': the result of validate_training_request
\* for a request it finds invalid (lines 76-79)
validation_stops(step, req) == StepNames[step] = "validate" /\ req = "invalid"

\* An attempt of the current step returns. validate's result with valid =
\* False makes run raise ApplicationError (lines 76-79); otherwise the step
\* has passed and the next execute_activity follows; the last step's result
\* completes the workflow.
activity_ok ==
  /\ wf.pc = "activity"
  /\ "ok" \in Outcomes(wf.step, wf.req)
  /\ LET ran == [wf.ran EXCEPT ![wf.step] = @ + 1]
         passed == [wf.passed EXCEPT ![wf.step] = TRUE] IN
     wf' = IF validation_stops(wf.step, wf.req)
           THEN [wf EXCEPT !.ran = ran, !.pc = "cleanup",
                           !.error = [step |-> wf.step, kind |-> "invalid"]]
           ELSE IF wf.step = Len(StepNames)
           THEN [wf EXCEPT !.ran = ran, !.passed = passed, !.pc = "done",
                           !.result = [status |-> "completed", error |-> NoError]]
           ELSE [wf EXCEPT !.ran = ran, !.passed = passed,
                           !.step = @ + 1, !.attempt = 1]
  /\ UNCHANGED <<poolvars, sb, pm, wm, ids>>

\* An attempt of the current step fails: it is retried, or execute_activity
\* raises ActivityError into run, whose except clause takes over.
activity_fails(kind) ==
  /\ wf.pc = "activity"
  /\ kind \in Outcomes(wf.step, wf.req) \ {"ok"}
  /\ LET ran == [wf.ran EXCEPT ![wf.step] = @ + 1] IN
     wf' = IF retries(wf.step, wf.attempt, kind)
           THEN [wf EXCEPT !.ran = ran, !.attempt = @ + 1]
           ELSE [wf EXCEPT !.ran = ran, !.pc = "cleanup",
                           !.error = [step |-> wf.step, kind |-> kind]]
  /\ UNCHANGED <<poolvars, sb, pm, wm, ids>>

\* The dict run returns from its except clause.
failed_result(error) == [status |-> "failed", error |-> error]

\* cleanup_on_failure returns: with cleanup_completed True, or False when its
\* own except clause caught an error of the removal. run returns the failed
\* result with str(e) of the step's error.
cleanup_returns(completed) ==
  /\ wf.pc = "cleanup"
  /\ wf' = [wf EXCEPT !.cleanups = @ + 1, !.pc = "done",
                      !.result = failed_result(wf.error)]
  /\ UNCHANGED <<poolvars, sb, pm, wm, ids>>

\* cleanup_on_failure does not return within its start_to_close_timeout (one
\* attempt): execute_activity raises ActivityError inside the except clause,
\* nothing catches it and run raises.
cleanup_times_out ==
  /\ wf.pc = "cleanup"
  /\ wf' = [wf EXCEPT !.cleanups = @ + 1, !.pc = "done",
                      !.result = [status |-> "raised",
                                  error |-> [step |-> NoStep, kind |-> "cleanup_timeout"]]]
  /\ UNCHANGED <<poolvars, sb, pm, wm, ids>>

WorkflowOpen == wf.pc \in {"scheduled", "activity", "cleanup"}

\* TemporalService.cancel_workflow: handle.cancel() asks the server to cancel
\* the workflow and returns; for a workflow that is unknown or closed the RPC
\* error is caught and an error dict returned.
cancel_workflow ==
  /\ wf' = IF WorkflowOpen THEN [wf EXCEPT !.cancel = TRUE] ELSE wf
  /\ UNCHANGED <<poolvars, sb, pm, wm, ids>>

\* The cancellation reaches run: CancelledError is raised at the await it is
\* in; it is no Exception, so the except clause does not run.
workflow_cancelled ==
  /\ WorkflowOpen
  /\ wf.cancel
  /\ wf' = [wf EXCEPT !.pc = "done",
                      !.result = [status |-> "cancelled", error |-> NoError]]
  /\ UNCHANGED <<poolvars, sb, pm, wm, ids>>

\* TemporalService.get_workflow_status up to its second await: handle.describe()
\* has answered (or raised, for an unknown workflow) and handle.result() is
\* awaited. For an unknown workflow both raise at once and the call returns
\* status "unknown".
get_workflow_status_call ==
  /\ wf.query = "idle"
  /\ wf' = IF wf.pc = "none" THEN wf ELSE [wf EXCEPT !.query = "result"]
  /\ UNCHANGED <<poolvars, sb, pm, wm, ids>>

\* The status get_workflow_status returns once handle.result() has returned the
\* dict of run ("completed") or raised WorkflowFailureError ("failed").
workflow_status_response ==
  IF wf.result.status \in {"completed", "failed"} THEN "completed" ELSE "failed"

\* handle.result() waits for the workflow to close.
get_workflow_status_return ==
  /\ wf.query = "result"
  /\ wf.pc = "done"
  /\ workflow_status_response \in {"completed", "failed"}
  /\ wf' = [wf EXCEPT !.query = "idle"]
  /\ UNCHANGED <<poolvars, sb, pm, wm, ids>>

NextWorkflow ==
  \/ \E req \in RequestKinds : start_training_workflow(req)
  \/ workflow_run
  \/ activity_ok
  \/ \E kind \in {"transient", "terminal"} : activity_fails(kind)
  \/ \E completed \in BOOLEAN : cleanup_returns(completed)
  \/ cleanup_times_out
  \/ cancel_workflow
  \/ workflow_cancelled
  \/ get_workflow_status_call
  \/ get_workflow_status_return

SpecWorkflow == Init /\ [][NextWorkflow]_vars

C14_TerminalNotRetried ==
  wf.error.kind = "terminal" => wf.ran[wf.error.step] = 1

\* C15: when run has ended after a step failed (and the workflow was not
\* cancelled), cleanup_on_failure was executed exactly once and the result is
\* status "failed" with the error of the step, however the cleanup ended.
C15_CleanupNeverMasks ==
  (wf.pc = "done" /\ wf.error # NoError /\ ~wf.cancel) =>
     /\ wf.cleanups = 1
     /\ wf.result = [status |-> "failed", error |-> wf.error]

\* C16: an operation that has started can return whatever state the job is
\* in: a handler of the pool backend that is under way can take its next
\* step, and a get_workflow_status call that is under way can return.
C16_OperationsNeverWait ==
  /\ api.pc # "idle" =>
       ENABLED (api_history_read \/ train_project_return
                \/ cancel_completed_return \/ cancel_action_return)
  /\ wf.query = "result" => ENABLED get_workflow_status_return

\* ====================================== the history file while it is rewritten
\* append_history in a worker, second half, as the file system sees it:
\* open(history_path, "w") truncates the file ...
worker_history_open(j) ==
  /\ jobs[j].pc \in {"run_write", "end_write"}
  /\ history' = [history EXCEPT ![jobs[j].project] = Torn]
  /\ jobs' = [jobs EXCEPT ![j].pc = IF jobs[j].pc = "run_write" THEN "run_dump"
                                    ELSE "end_dump"]
  /\ UNCHANGED <<training_tasks, pidfile, clock, api, cancelAcked, calls, rest>>

\* ... and json.dump and the close of the file put the new content there.
worker_history_dump(j) ==
  /\ jobs[j].pc \in {"run_dump", "end_dump"}
  /\ history' = [history EXCEPT ![jobs[j].project] =
                    append_history(jobs[j].snap, jobs[j].entry)]
  /\ jobs' = [jobs EXCEPT ![j].snap = <<>>,
                          ![j].entry = NoEntry,
                          ![j].pc = IF jobs[j].pc = "run_dump" THEN "popen"
                                    ELSE "finally"]
  /\ UNCHANGED <<training_tasks, pidfile, clock, api, cancelAcked, calls, rest>>

\* The HTTP response of get_training_history(p): the list json.load returned,
\* or 500 after JSONDecodeError (lines 758-763).
get_training_history_response(p) ==
  IF json_load(history[p]) = "JSONDecodeError"
  THEN [code |-> 500, body |-> <<>>]
  ELSE [code |-> 200, body |-> json_load(history[p])]

\* get_training_history reads the file and writes nothing.
get_training_history_call(p) ==
  /\ api.pc = "idle"
  /\ get_training_history_response(p).code \in {200, 500}
  /\ UNCHANGED vars

\* SpecTorn: Spec with the writes of the workers also taken in two steps, so
\* that a reader can find the file as it is in between. The writes of the
\* handlers stay one step (no handler runs during another handler).
NextTorn ==
  \/ Next
  \/ \E j \in JobIds : worker_history_open(j)
  \/ \E j \in JobIds : worker_history_dump(j)
  \/ \E p \in Requested : get_training_history_call(p)

SpecTorn == Init /\ [][NextTorn]_vars

\* C17: get_training_history answers 200 whatever state the history file is
\* in, and its body is the entries of the file that can be parsed.
C17_HistoryReadNeverFails ==
  \A p \in Projects :
    api.pc = "idle" => get_training_history_response(p).code = 200

\* ------------------------------------------ claims on cancel and the history
\* A cancellation action has been performed on submission j: its future was
\* cancelled or its subprocess was sent SIGTERM.
CancelActed(j) ==
  jobs[j].pc = "cancelled" \/ jobs[j].proc \in {"killed", "terminated"}

C19_SubmissionsNotInterleaved ==
  \A p \in Projects :
    \A i, k \in 1..Len(get_training_history(p)) :
      i < k => get_training_history(p)[i].job <= get_training_history(p)[k].job

\* ======================================================== PID-file backend
\* train_project of packages/backend/main_simple.py (the same function is in
\* ai-traineasy-mvp/packages/backend/backend/main.py) for one project whose
\* schema and dataset exist. The handler has no await and is one step; each
\* run_training thread runs in parallel with it.
Threads(pcs) == {t \in ThreadIds : sb.threads[t].pc \in pcs}

\* if os.path.exists(pid_path): 409 "Training already in progress"
simple_train_rejects == sb.pid # NoPid

\* The status code of the response of train_project.
simple_train_project_response == IF simple_train_rejects THEN 409 ELSE 200

simple_train_project_reject ==
  /\ simple_train_rejects
  /\ simple_train_project_response = 409
  /\ UNCHANGED vars

\* No train.pid: the project status becomes "training", the run_training
\* thread is started and the success response returned.
simple_train_project_accept ==
  /\ ~simple_train_rejects
  /\ Threads({"none"}) # {}
  /\ LET t == Least(Threads({"none"})) IN
     sb' = [sb EXCEPT !.status = "training", !.threads[t].pc = "start"]
  /\ UNCHANGED <<poolvars, wf, pm, wm, ids>>

\* run_training: the log file is opened, subprocess.Popen starts the training
\* subprocess and its PID is written to train.pid.
run_training_popen(t) ==
  /\ sb.threads[t].pc = "start"
  /\ sb' = [sb EXCEPT !.pid = t, !.threads[t] = [pc |-> "wait", proc |-> "alive"]]
  /\ UNCHANGED <<poolvars, wf, pm, wm, ids>>

\* open(log_path, "w") or Popen raises: the except clause takes over.
run_training_raises(t) ==
  /\ sb.threads[t].pc = "start"
  /\ sb' = [sb EXCEPT !.threads[t].pc = "update"]
  /\ UNCHANGED <<poolvars, wf, pm, wm, ids>>

\* proc.wait() returns with return code 0 or another one.
run_training_wait(t) ==
  /\ sb.threads[t].pc = "wait"
  /\ \E rc \in {0, 1} :
       sb' = [sb EXCEPT !.threads[t] = [pc |-> "update",
                            proc |-> IF rc = 0 THEN "exit0" ELSE "exitErr"]]
  /\ UNCHANGED <<poolvars, wf, pm, wm, ids>>

\* The project status is written: "completed" for return code 0, "failed" for
\* another return code and in the except clause.
run_training_update(t) ==
  /\ sb.threads[t].pc = "update"
  /\ sb' = [sb EXCEPT !.status = IF sb.threads[t].proc = "exit0" THEN "completed"
                                 ELSE "failed",
                      !.threads[t].pc = "cleanup"]
  /\ UNCHANGED <<poolvars, wf, pm, wm, ids>>

\* if os.path.exists(pid_path): os.remove(pid_path), on both paths; the thread
\* ends.
run_training_cleanup(t) ==
  /\ sb.threads[t].pc = "cleanup"
  /\ sb' = [sb EXCEPT !.pid = NoPid, !.threads[t].pc = "ended"]
  /\ UNCHANGED <<poolvars, wf, pm, wm, ids>>

NextSimple ==
  \/ simple_train_project_reject
  \/ simple_train_project_accept
  \/ \E t \in ThreadIds : run_training_popen(t)
  \/ \E t \in ThreadIds : run_training_raises(t)
  \/ \E t \in ThreadIds : run_training_wait(t)
  \/ \E t \in ThreadIds : run_training_update(t)
  \/ \E t \in ThreadIds : run_training_cleanup(t)

SpecSimple == Init /\ [][NextSimple]_vars

\* C20: at most one training subprocess of the project runs at any instant.
C20_OneSubprocessPerProject ==
  Cardinality({t \in ThreadIds : sb.threads[t].proc = "alive"}) <= 1

\* ========================================================== ProcessManager
\* utils/process_manager.py. Every method runs "with self.process_lock"; the
\* body of start_training is taken in three steps (the check, the call of
\* run_training, the registration), the bodies of the other methods in one.
\* run_training and the process object it returns are not part of the
\* sources: pause(), resume() and terminate() either take effect or raise.
nopm == <<poolvars, wf, sb, wm, ids>>

\* (a lock that excludes nobody)
lock_never_held(c) == TRUE

\* Lock.acquire succeeds for thread c: no thread holds process_lock.
lock_free(c) == pm.lock = NoCaller

CallerIdle(c) == pm.callers[c].pc = "idle"

in_active_processes(p) == pm.active[p].proc # NoProc

\* What start_training(p) does at its check: raises ValueError for a project
\* that has an entry.
start_training_response(p) ==
  IF in_active_processes(p) THEN "ValueError" ELSE "run_training"

\* start_training: the lock is taken, the project has an entry: ValueError
\* ('Training already running for project'), the lock is released.
start_training_conflict(c, p) ==
  /\ CallerIdle(c)
  /\ lock_free(c)
  /\ start_training_response(p) = "ValueError"
  /\ pm' = [pm EXCEPT !.callers[c] = IdleCaller,
                      !.last = Call(c, "start_training", p, "ValueError")]
  /\ UNCHANGED nopm

\* start_training: the lock is taken, the project has no entry; run_training
\* is called next.
start_training_enter(c, p) ==
  /\ CallerIdle(c)
  /\ lock_free(c)
  /\ start_training_response(p) = "run_training"
  /\ pm' = [pm EXCEPT !.lock = c,
                      !.callers[c] = [pc |-> "run", project |-> p, proc |-> NoProc]]
  /\ UNCHANGED nopm

FreeProcs == {i \in ProcIds : pm.procs[i] = "none"}

\* run_training returns a process ...
start_training_run(c) ==
  /\ pm.callers[c].pc = "run"
  /\ FreeProcs # {}
  /\ LET i == Least(FreeProcs) IN
     pm' = [pm EXCEPT !.procs[i] = "running",
                      !.callers[c].pc = "register",
                      !.callers[c].proc = i]
  /\ UNCHANGED nopm

\* ... or raises: the error is logged and raised again, the lock released.
start_training_raises(c) ==
  /\ pm.callers[c].pc = "run"
  /\ pm' = [pm EXCEPT !.lock = IF pm.lock = c THEN NoCaller ELSE pm.lock,
                      !.callers[c] = IdleCaller,
                      !.last = Call(c, "start_training", pm.callers[c].project, "raised")]
  /\ UNCHANGED nopm

\* self.active_processes[project_id] = {'process': process, 'paused': False};
\* the project id is returned and the lock released.
start_training_register(c) ==
  /\ pm.callers[c].pc = "register"
  /\ pm' = [pm EXCEPT !.lock = IF pm.lock = c THEN NoCaller ELSE pm.lock,
                      !.active[pm.callers[c].project] =
                          [proc |-> pm.callers[c].proc, paused |-> FALSE,
                           lastop |-> "none"],
                      !.callers[c] = IdleCaller,
                      !.last = Call(c, "start_training", pm.callers[c].project, "ok")]
  /\ UNCHANGED nopm

\* pause_training: nothing for a project without entry; else process.pause()
\* and, if it did not raise, paused = True.
pause_training(c, p) ==
  /\ CallerIdle(c)
  /\ lock_free(c)
  /\ \E raises \in BOOLEAN :
       LET i == pm.active[p].proc IN
       pm' = IF ~in_active_processes(p)
             THEN [pm EXCEPT !.callers[c] = IdleCaller,
                             !.last = Call(c, "pause_training", p, "ok")]
             ELSE IF raises
             THEN [pm EXCEPT !.callers[c] = IdleCaller,
                             !.last = Call(c, "pause_training", p, "raised")]
             ELSE [pm EXCEPT !.procs[i] = IF @ = "running" THEN "paused" ELSE @,
                             !.active[p].paused = TRUE,
                             !.active[p].lastop = "pause_training",
                             !.callers[c] = IdleCaller,
                             !.last = Call(c, "pause_training", p, "ok")]
  /\ UNCHANGED nopm

\* (a resume that does not look at the paused flag)
resume_training_response_unchecked(p) ==
  IF ~in_active_processes(p) THEN "KeyError" ELSE "resume"

\* What resume_training(p) does: KeyError without entry, ValueError for an
\* entry that is not paused, else process.resume().
resume_training_response(p) ==
  IF ~in_active_processes(p) THEN "KeyError"
  ELSE IF ~pm.active[p].paused THEN "ValueError"
  ELSE "resume"

resume_training(c, p) ==
  /\ CallerIdle(c)
  /\ lock_free(c)
  /\ \E raises \in BOOLEAN :
       LET i == pm.active[p].proc
           r == resume_training_response(p) IN
       pm' = IF r # "resume"
             THEN [pm EXCEPT !.callers[c] = IdleCaller,
                             !.last = Call(c, "resume_training", p, r)]
             ELSE IF raises
             THEN [pm EXCEPT !.callers[c] = IdleCaller,
                             !.last = Call(c, "resume_training", p, "raised")]
             ELSE [pm EXCEPT !.procs[i] = IF @ = "paused" THEN "running" ELSE @,
                             !.active[p].paused = FALSE,
                             !.active[p].lastop = "resume_training",
                             !.callers[c] = IdleCaller,
                             !.last = Call(c, "resume_training", p, "ok")]
  /\ UNCHANGED nopm

\* (a cleanup that keeps the entry when terminate() raised)
active_after_cleanup_unless_raised(p, raises) ==
  IF raises THEN pm.active ELSE [pm.active EXCEPT ![p] = NoActive]

\* active_processes after cleanup(p): pop(project_id, None)
active_after_cleanup(p, raises) == [pm.active EXCEPT ![p] = NoActive]

\* cleanup: the entry is popped and terminate() called on its process; an
\* exception of terminate() is logged and swallowed.
cleanup(c, p) ==
  /\ CallerIdle(c)
  /\ lock_free(c)
  /\ \E raises \in BOOLEAN :
       LET i == pm.active[p].proc IN
       pm' = IF ~in_active_processes(p)
             THEN [pm EXCEPT !.callers[c] = IdleCaller,
                             !.last = Call(c, "cleanup", p, "ok")]
             ELSE [pm EXCEPT !.procs[i] = IF raises THEN @ ELSE "terminated",
                             !.active = active_after_cleanup(p, raises),
                             !.callers[c] = IdleCaller,
                             !.last = Call(c, "cleanup", p, "ok")]
  /\ UNCHANGED nopm

\* The training process ends by itself; its entry stays until cleanup.
process_exits(i) ==
  /\ pm.procs[i] \in {"running", "paused"}
  /\ pm' = [pm EXCEPT !.procs[i] = "exited"]
  /\ UNCHANGED nopm

NextManager ==
  \/ \E c \in Callers, p \in PMProjects : start_training_conflict(c, p)
  \/ \E c \in Callers, p \in PMProjects : start_training_enter(c, p)
  \/ \E c \in Callers : start_training_run(c)
  \/ \E c \in Callers : start_training_raises(c)
  \/ \E c \in Callers : start_training_register(c)
  \/ \E c \in Callers, p \in PMProjects : pause_training(c, p)
  \/ \E c \in Callers, p \in PMProjects : resume_training(c, p)
  \/ \E c \in Callers, p \in PMProjects : cleanup(c, p)
  \/ \E i \in ProcIds : process_exits(i)

SpecManager == Init /\ [][NextManager]_vars

\* ------------------------------------------- claims on the ProcessManager
InStartBody == {c \in Callers : pm.callers[c].pc # "idle"}

\* C21: a start_training call for a project that has an entry ends with
\* ValueError and leaves active_processes and the processes as they were
\* (run_training is not called); at most one thread is inside the body of
\* start_training, and a registration never replaces an entry, so of two
\* concurrent calls for a project the one that comes second finds the entry
\* of the first and is rejected.
C21_StartRejectsActive ==
  [][/\ Cardinality(InStartBody) <= 1
     /\ Cardinality(InStartBody') <= 1
     /\ \A c \in Callers, p \in PMProjects :
          /\ (in_active_processes(p)
              /\ (start_training_conflict(c, p) \/ start_training_enter(c, p))) =>
               /\ pm'.active = pm.active
               /\ pm'.procs = pm.procs
               /\ pm'.lock = pm.lock
               /\ pm'.callers[c].pc = "idle"
               /\ pm'.last = Call(c, "start_training", p, "ValueError")
          /\ (start_training_register(c) /\ pm.callers[c].project = p) =>
               /\ ~in_active_processes(p)
               /\ pm'.active[p].proc = pm.callers[c].proc
               /\ \A q \in PMProjects \ {p} : pm'.active[q] = pm.active[q]]_vars

\* C21 witness: one process was started and registered for p1, and the
\* start_training call of thread t2 for p1 was rejected.
C21_Witness ==
  /\ pm.last = Call("t2", "start_training", "p1", "ValueError")
  /\ \A c \in Callers : pm.callers[c].pc = "idle"
  /\ in_active_processes("p1")
  /\ Cardinality({i \in ProcIds : pm.procs[i] # "none"}) = 1

\* C22: resume_training ends with KeyError for a project without entry and
\* with ValueError for an entry that is not paused, and changes neither the
\* entries nor the processes then; it resumes only an entry on which the
\* last pause_training or resume_training that returned was a
\* pause_training, and when it returns the entry's paused flag is False.
C22_ResumeOnlyPaused ==
  [][\A c \in Callers, p \in PMProjects :
       resume_training(c, p) =>
         /\ ~in_active_processes(p) =>
              pm'.last = Call(c, "resume_training", p, "KeyError")
         /\ (in_active_processes(p) /\ ~pm.active[p].paused) =>
              pm'.last = Call(c, "resume_training", p, "ValueError")
         /\ pm'.last.result \in {"KeyError", "ValueError"} =>
              (pm'.active = pm.active /\ pm'.procs = pm.procs)
         /\ pm'.last.result = "ok" =>
              /\ pm'.last = Call(c, "resume_training", p, "ok")
              /\ in_active_processes(p)
              /\ pm.active[p].paused
              /\ pm.active[p].lastop = "pause_training"
              /\ ~pm'.active[p].paused
              /\ pm'.active[p].proc = pm.active[p].proc]_vars

\* C22 witness: a resume_training returned for an entry that had been
\* paused, resumed and paused again before.
C22_Witness ==
  /\ \E c \in Callers : pm.last = Call(c, "resume_training", "p1", "ok")
  /\ in_active_processes("p1")
  /\ pm.active["p1"].lastop = "resume_training"
  /\ ~pm.active["p1"].paused
  /\ pm.procs[pm.active["p1"].proc] = "running"

\* C30: cleanup(p) returns without raising, whether terminate() raised or
\* not; afterwards p has no entry and start_training(p) goes on to
\* run_training; the entries of the other projects are as before, and
\* without an entry for p nothing changes at all.
C30_CleanupFrees ==
  [][\A c \in Callers, p \in PMProjects :
       cleanup(c, p) =>
         /\ pm'.last = Call(c, "cleanup", p, "ok")
         /\ ~in_active_processes(p)'
         /\ start_training_response(p)' = "run_training"
         /\ \A q \in PMProjects \ {p} : pm'.active[q] = pm.active[q]
         /\ ~in_active_processes(p) =>
              (pm'.active = pm.active /\ pm'.procs = pm.procs)]_vars

\* C30 witness: cleanup("p1") returned although terminate() raised (the
\* process still runs), p1 has no entry and p2 still has its own.
C30_Witness ==
  /\ \E c \in Callers : pm.last = Call(c, "cleanup", "p1", "ok")
  /\ ~in_active_processes("p1")
  /\ in_active_processes("p2")
  /\ \A i \in ProcIds : pm.procs[i] = "running"
\* ====================================================================
\* WorkerManager (backend/worker.py). start() and stop() are coroutines of
\* one event loop: they interleave only at their awaits (Client.connect,
\* worker.run, worker.shutdown). main() is the caller: a start() begins when
\* no start() or stop() is in flight, a stop() when no other stop() is in
\* flight and no start() is waiting for its connection.
\* ====================================================================
nowm == <<poolvars, wf, sb, pm, ids>>

\* Worker objects not created yet
FreeWorkers == {w \in WorkerIds : wm.workers[w].state = "none"}

\* start() is called: it awaits Client.connect.
worker_start_call ==
  /\ wm.start = "idle"
  /\ wm.stop = "idle"
  /\ FreeWorkers # {}
  /\ wm' = [wm EXCEPT !.start = "connect", !.outcome = "none", !.last = "none"]
  /\ UNCHANGED nowm

\* Client.connect raises: logged and raised again, nothing was assigned.
worker_connect_raises ==
  /\ wm.start = "connect"
  /\ wm' = [wm EXCEPT !.start = "idle", !.outcome = "raised"]
  /\ UNCHANGED nowm

\* Client.connect returns, Worker(...) raises: the client is kept, the
\* exception is logged and raised again.
worker_create_raises ==
  /\ wm.start = "connect"
  /\ wm' = [wm EXCEPT !.client = TRUE, !.start = "idle", !.outcome = "raised"]
  /\ UNCHANGED nowm

\* Client.connect returns, the Worker is created, running becomes True and
\* worker.run() is awaited: no await lies between these statements.
worker_run ==
  /\ wm.start = "connect"
  /\ \E w \in FreeWorkers :
       /\ \A v \in FreeWorkers : w <= v
       /\ wm' = [wm EXCEPT !.client = TRUE, !.worker = w, !.running = TRUE,
                           !.workers[w].state = "running", !.start = "run"]
  /\ UNCHANGED nowm

\* worker.run() raises: logged and raised again; running is not assigned.
worker_run_raises ==
  /\ wm.start = "run"
  /\ wm.workers[wm.worker].state = "running"
  /\ wm' = [wm EXCEPT !.workers[wm.worker].state = "crashed",
                      !.start = "idle", !.outcome = "raised"]
  /\ UNCHANGED nowm

\* worker.run() returns once the worker was shut down: start() returns.
worker_run_returns ==
  /\ wm.start = "run"
  /\ wm.workers[wm.worker].state = "stopped"
  /\ wm' = [wm EXCEPT !.start = "idle", !.outcome = "returned"]
  /\ UNCHANGED nowm

\* stop without the test of running
stop_shuts_down_any_worker(m) == m.worker # NoWorker

\* stop: 'if self.worker and self.running'
stop_shuts_down(m) == m.worker # NoWorker /\ m.running

\* stop() is called on a manager with a worker and running True:
\* worker.shutdown() is called and awaited.
worker_stop_shutdown ==
  /\ wm.stop = "idle"
  /\ wm.start # "connect"
  /\ stop_shuts_down(wm)
  /\ wm' = [wm EXCEPT !.stop = "shutdown",
                      !.workers[wm.worker].shutdowns = @ + 1,
                      !.workers[wm.worker].state =
                         IF @ = "running" THEN "stopped" ELSE @]
  /\ UNCHANGED nowm

\* worker.shutdown() returns: running becomes False, stop() returns.
worker_stop_return ==
  /\ wm.stop = "shutdown"
  /\ wm' = [wm EXCEPT !.stop = "idle", !.running = FALSE, !.last = "shutdown"]
  /\ UNCHANGED nowm

\* stop() is called on a manager without worker or with running False: it
\* returns at once.
worker_stop_noop ==
  /\ wm.stop = "idle"
  /\ wm.start # "connect"
  /\ ~stop_shuts_down(wm)
  /\ wm' = [wm EXCEPT !.last = "noop"]
  /\ UNCHANGED nowm

\* health_check: the reported status
health_check == IF wm.running THEN "healthy" ELSE "stopped"

NextWorker ==
  \/ worker_start_call
  \/ worker_connect_raises
  \/ worker_create_raises
  \/ worker_run
  \/ worker_run_raises
  \/ worker_run_returns
  \/ worker_stop_shutdown
  \/ worker_stop_return
  \/ worker_stop_noop

SpecWorker == Init /\ [][NextWorker]_vars

\* a step of stop() that begins on a manager with running False
StopCalledWhileStopped ==
  /\ wm.stop = "idle"
  /\ ~wm.running
  /\ wm'.start = wm.start
  /\ wm' # wm

\* C23: while a started worker runs and no stop() has shut it down, running
\* is True; after a stop() that shut a worker down has returned, running is
\* False and that worker was shut down exactly once; no worker is ever shut
\* down twice; a stop() called while running is False calls no shutdown and
\* changes neither client, worker nor running.
C23_WorkerLifecycle ==
  /\ [](/\ \A w \in WorkerIds : wm.workers[w].state = "running" => wm.running /\ wm.worker = w
        /\ wm.last = "shutdown" =>
             ~wm.running /\ wm.workers[wm.worker].shutdowns = 1
        /\ \A w \in WorkerIds : wm.workers[w].shutdowns <= 1)
  /\ [][StopCalledWhileStopped =>
          /\ wm'.stop = "idle"
          /\ wm'.workers = wm.workers
          /\ wm'.client = wm.client
          /\ wm'.worker = wm.worker
          /\ wm'.running = wm.running
          /\ wm'.last = "noop"]_vars

\* a worker was started and stopped, a second stop() did nothing
C23_Witness ==
  /\ wm.last = "noop"
  /\ wm.outcome = "returned"
  /\ wm.worker # NoWorker
  /\ wm.workers[wm.worker].shutdowns = 1

\* C24: when the last start() has raised, health_check does not report
\* 'healthy'.
C24_FailedStartNotHealthy ==
  (wm.start = "idle" /\ wm.outcome = "raised") => health_check # "healthy"
\* ====================================================================
\* Identifiers minted from the clock: simple_main.start_training and
\* TemporalService.start_training_workflow.
\* ====================================================================
noids == <<jobs, training_tasks, history, pidfile, api, cancelAcked, calls, wf, sb, pm, wm>>

\* int(time.time()): the clock in whole seconds
int_time == clock

\* f"session_{int(time.time())}", f"model_{int(time.time())}" and the time
\* part of f"training_{model_id}_{int(time.time())}", for the n-th accepted
\* submission made at time t
session_id(t, n) == t

\* simple_main.start_training for a project with data: the session record
\* is stored under session_<now>, the mock training runs, the model record is
\* stored under model_<later>, later being now or the next second.
simple_start_training ==
  /\ ids.accepted < MaxSubmits
  /\ \E later \in {int_time, int_time + 1} :
       LET n == ids.accepted + 1
           s == session_id(int_time, n)
           m == session_id(later, n)
       IN /\ later <= MaxClock
          /\ s \in 0..MaxClock
          /\ m \in 0..MaxClock
          /\ clock' = later
          /\ ids' = [ids EXCEPT !.training_sessions[s] = n,
                                !.models_db[m] = n,
                                !.given[n] = [kind |-> "simple", session |-> s,
                                              model |-> m, workflow |-> NoTime],
                                !.accepted = n]
  /\ UNCHANGED noids

\* TemporalService.start_training_workflow: client.start_workflow with the
\* id training_<model_id>_<now> starts a run unless a run with this id is
\* open.
ids_start_training_workflow ==
  /\ ids.accepted < MaxSubmits
  /\ LET n == ids.accepted + 1
         w == session_id(int_time, n)
     IN /\ w \in 0..MaxClock
        /\ ~ids.workflows[w].open
        /\ ids' = [ids EXCEPT !.workflows[w] = [run |-> n, open |-> TRUE],
                              !.given[n] = [kind |-> "workflow", session |-> NoTime,
                                            model |-> NoTime, workflow |-> w],
                              !.accepted = n]
  /\ UNCHANGED <<clock, noids>>

\* client.start_workflow raises for the id of an open run: the submission
\* is not accepted.
ids_start_training_workflow_raises ==
  /\ ids.accepted < MaxSubmits
  /\ session_id(int_time, ids.accepted + 1) \in 0..MaxClock
  /\ ids.workflows[session_id(int_time, ids.accepted + 1)].open
  /\ UNCHANGED vars

\* a workflow run closes
ids_workflow_closes ==
  /\ \E w \in 0..MaxClock :
       /\ ids.workflows[w].open
       /\ ids' = [ids EXCEPT !.workflows[w].open = FALSE]
  /\ UNCHANGED <<clock, noids>>

NextIds ==
  \/ tick
  \/ simple_start_training
  \/ ids_start_training_workflow
  \/ ids_start_training_workflow_raises
  \/ ids_workflow_closes

SpecIds == Init /\ [][NextIds]_vars

Accepted == 1..ids.accepted

\* C25: two accepted submissions of the same kind never have the same
\* session_id, model_id or workflow_id, and the records stored for an
\* accepted submission are still its own.
C25_IdentifiersDistinct ==
  /\ \A n \in Accepted : \A k \in Accepted :
       (n # k /\ ids.given[n].kind = ids.given[k].kind) =>
          /\ ids.given[n].kind = "simple" =>
               /\ ids.given[n].session # ids.given[k].session
               /\ ids.given[n].model # ids.given[k].model
          /\ ids.given[n].kind = "workflow" =>
               ids.given[n].workflow # ids.given[k].workflow
  /\ \A n \in Accepted :
       ids.given[n].kind = "simple" =>
          /\ ids.training_sessions[ids.given[n].session] = n
          /\ ids.models_db[ids.given[n].model] = n
\* ====================================================================
\* MLTrainingWorkflow.run: the order of the steps
\* ====================================================================
\* run has reached the execute_activity of step s
StepStarted(s) == wf.step # NoStep /\ wf.step >= s

\* C26: a step of run starts only after every earlier step has passed, in
\* the order validate, prepare, load_data, train, evaluate, persist; for a
\* request that validate finds invalid, prepare never starts and validate
\* does not count as passed; the result 'completed' is returned only when
\* all six steps have passed.
C26_StepsInOrder ==
  /\ \A s \in Steps : StepStarted(s) => \A r \in 1..(s - 1) : wf.passed[r]
  /\ \A s \in Steps : wf.passed[s] => wf.ran[s] > 0
  /\ wf.req = "invalid" => ~StepStarted(2) /\ ~wf.passed[1]
  /\ wf.result.status = "completed" => \A s \in Steps : wf.passed[s]

\* a workflow has completed all six steps, with a retry on the way
C26_Witness ==
  /\ wf.result.status = "completed"
  /\ \A s \in Steps : wf.passed[s]
  /\ \E s \in Steps : wf.ran[s] > 1

\* a run with an invalid request has ended after validate alone
C26_WitnessInvalid ==
  /\ wf.req = "invalid"
  /\ wf.result.status = "failed"
  /\ wf.ran[1] > 0
  /\ \A s \in Steps : s > 1 => wf.ran[s] = 0
\* ====================================================================
\* Order of the history entries of one submission (process-pool backend)
\* ====================================================================
\* the positions of the entries of job j with one of the events in the
\* history file of project p
PositionsOf(p, j, events) ==
  {i \in 1..Len(history[p]) : history[p][i].job = j /\ history[p][i].event \in events}

\* C27: in every history file, a 'running' entry of a submission has the
\* 'queued' entry of that submission before it, and a 'finished' or 'failed'
\* entry of a submission has its 'running' entry before it.
C27_HistoryInTransitionOrder ==
  \A p \in Projects : \A j \in JobIds :
    /\ \A i \in PositionsOf(p, j, {"running"}) :
         \E k \in PositionsOf(p, j, {"queued"}) : k < i
    /\ \A i \in PositionsOf(p, j, {"finished", "failed"}) :
         \E k \in PositionsOf(p, j, {"running"}) : k < i
\* ====================================================================
\* Ownership of train.pid (process-pool backend)
\* ====================================================================
\* C29: while the training subprocess of the job registered for a project
\* runs and its PID has been written, train.pid of the project holds that
\* PID: no other job has overwritten or removed it.
C29_SentinelOwnedByRegisteredJob ==
  \A p \in Projects :
    LET j == training_tasks[p] IN
      (/\ j # NoJob
       /\ jobs[j].pc = "wait"
       /\ jobs[j].proc = "alive")
      => pidfile[p] = j
\* ====================================================================
\* Termination of a job and resubmission. One deployment runs one backend:
\* a behaviour takes the steps of the process-pool backend or those of the
\* PID-file backend. Fair scheduling: a step of a handler, of the executor,
\* of a worker process or of a run_training thread that stays possible is
\* taken; proc.wait() returning is among these steps (every training
\* subprocess exits).
\* ====================================================================
MaxLiveCalls == 2   \* train_project and cancel_training calls that reach the pool

\* the PID-file backend has not been used
PoolOnly == sb = NoTraining

\* the process-pool backend has not been used
SimpleOnly == calls = 0

LiveCall == PoolOnly /\ calls < MaxLiveCalls

\* the steps the process-pool backend takes by itself
PoolProgress ==
  /\ PoolOnly
  /\ \/ api_history_read
     \/ train_project_return
     \/ cancel_completed_return
     \/ cancel_action_return
     \/ \E j \in JobIds : dispatch(j)
     \/ \E j \in JobIds : worker_start(j)
     \/ \E j \in JobIds : worker_history_read(j)
     \/ \E j \in JobIds : worker_history_write(j)
     \/ \E j \in JobIds : popen_ok(j)
     \/ \E j \in JobIds : popen_raises(j)
     \/ \E j \in JobIds : proc_wait(j)
     \/ \E j \in JobIds : job_finally(j)
     \/ \E j \in JobIds : set_result(j)

\* the steps the run_training threads take by themselves
SimpleProgress ==
  /\ SimpleOnly
  /\ \/ \E t \in ThreadIds : run_training_popen(t)
     \/ \E t \in ThreadIds : run_training_raises(t)
     \/ \E t \in ThreadIds : run_training_wait(t)
     \/ \E t \in ThreadIds : run_training_update(t)
     \/ \E t \in ThreadIds : run_training_cleanup(t)

NextLive ==
  \/ \E p \in Requested : PoolOnly /\ train_project_reject(p)
  \/ \E p \in Requested : LiveCall /\ train_project_submit(p)
  \/ PoolOnly /\ api_history_read
  \/ PoolOnly /\ train_project_return
  \/ \E p \in Requested : PoolOnly /\ cancel_not_found(p)
  \/ \E p \in Requested : LiveCall /\ cancel_completed(p)
  \/ PoolOnly /\ cancel_completed_return
  \/ \E p \in Requested : LiveCall /\ cancel_action(p)
  \/ PoolOnly /\ cancel_action_return
  \/ \E p \in Requested : PoolOnly /\ get_train_status(p)
  \/ \E j \in JobIds : PoolOnly /\ dispatch(j)
  \/ \E j \in JobIds : PoolOnly /\ worker_start(j)
  \/ \E j \in JobIds : PoolOnly /\ worker_history_read(j)
  \/ \E j \in JobIds : PoolOnly /\ worker_history_write(j)
  \/ \E j \in JobIds : PoolOnly /\ popen_ok(j)
  \/ \E j \in JobIds : PoolOnly /\ popen_raises(j)
  \/ \E j \in JobIds : PoolOnly /\ proc_wait(j)
  \/ \E j \in JobIds : PoolOnly /\ job_finally(j)
  \/ \E j \in JobIds : PoolOnly /\ set_result(j)
  \/ SimpleOnly /\ simple_train_project_reject
  \/ SimpleOnly /\ simple_train_project_accept
  \/ \E t \in ThreadIds : SimpleOnly /\ run_training_popen(t)
  \/ \E t \in ThreadIds : SimpleOnly /\ run_training_raises(t)
  \/ \E t \in ThreadIds : SimpleOnly /\ run_training_wait(t)
  \/ \E t \in ThreadIds : SimpleOnly /\ run_training_update(t)
  \/ \E t \in ThreadIds : SimpleOnly /\ run_training_cleanup(t)

SpecLive ==
  /\ Init
  /\ [][NextLive]_vars
  /\ WF_vars(PoolProgress)
  /\ WF_vars(SimpleProgress)

\* the run_training threads that have not ended
LiveThreads == Threads({"start", "wait", "update", "cleanup"})

\* C28: every accepted submission of the process-pool backend leads to its
\* future being done, and every started run_training thread of the PID-file
\* backend to its end with train.pid removed by it; whenever the job
\* registered for a project is done, train_project for the project does not
\* answer 409, and whenever no run_training thread is left, train_project of
\* the PID-file backend answers 200.
C28_JobsEndAndResubmit ==
  /\ \A j \in JobIds : (jobs[j].pc # "none") ~> future_done(j)
  /\ \A t \in ThreadIds :
       (sb.threads[t].pc = "start") ~> (sb.threads[t].pc = "ended")
  /\ (LiveThreads # {}) ~> (LiveThreads = {} /\ sb.pid = NoPid)
  /\ [](\A p \in Requested :
          (training_tasks[p] = NoJob \/ future_done(training_tasks[p]))
          => train_project_response(p).code # 409)
  /\ [](LiveThreads = {} => simple_train_project_response = 200)

\* the first submission of the project has finished with its future done, and
\* a second train_project call was accepted and registered after it
C28_Witness ==
  /\ jobs[1].pc = "done"
  /\ jobs[1].out # "exception"
  /\ training_tasks["p1"] = 2
  /\ jobs[2].pc \in ExecPcs

====
